---------------------------- MODULE Spec2Model ----------------------------
(***************************************************************************)
(* ftag: the tag store of src/ftag.c.                                      *)
(*                                                                         *)
(* A C string is a tuple of character codes.  A pointer is a set with at   *)
(* most one element: NULL is the empty set, a pointer to v is {v}.         *)
(* The SQLite database behind dbconn is a record: the tables file and tag  *)
(* are sequences (the index of a row is its INTEGER PRIMARY KEY, which     *)
(* SQLite assigns as largest id + 1), file_tag is a bag of pairs: the      *)
(* number of rows (file_id, tag_id) the table holds for each pair.         *)
(***************************************************************************)
EXTENDS Integers, Sequences, FiniteSets, Bags, TLC

\* ------------------------------------------------------------------ bounds
MaxTagc == 2
\* the number of times one cursor may be stepped up to its end
MaxEnds == 2
\* the depth of the deepest directory below the root
MaxDepth == 2
\* the number of statements one connection may be left with unfinalized
MaxStmts == 2
\* the number of calls of init_db that may go on to sqlite3_open_v2
MaxOpens == 2

\* --------------------------------------------------------------- constants
SUCCESS == 0
ERROR == 1
\* the character '.'
Dot == 46

NULL == {}
Ptr(v) == {v}
Deref(p) == CHOOSE v \in p : TRUE

\* "" , ".h", "a" : the paths the operations are called with
FileNames == { <<>>, <<46, 104>>, <<97>> }
\* ".x", "a" : the tag names the operations are called with
TagNames == { <<46, 120>>, <<97>> }

\* ------------------------------------------------------------------ strings
\* byte-wise comparison (SQLite's BINARY collation, memcmp then length)
StrLess(a, b) ==
    \E k \in 1..(Len(b)) :
        /\ \A j \in 1..(k - 1) : j <= Len(a) /\ a[j] = b[j]
        /\ \/ k > Len(a)
           \/ k <= Len(a) /\ a[k] < b[k]

RECURSIVE SortStrs(_)
\* the strings of a set in ascending order: the order of an index b-tree
SortStrs(S) ==
    IF S = {} THEN <<>>
    ELSE LET m == CHOOSE x \in S : \A y \in S \ {x} : StrLess(x, y)
         IN  <<m>> \o SortStrs(S \ {m})

SeqRange(s) == { s[i] : i \in 1..Len(s) }

\* the id of the row holding string s in a table, 0 when there is none
RowId(table, s) ==
    IF \E i \in 1..Len(table) : table[i] = s
    THEN CHOOSE i \in 1..Len(table) : table[i] = s
    ELSE 0


\* ------------------------------------------------------------ the database
\* run_init_db_sql's schema on a database that holds no rows
EmptyDb(store) ==
    [store |-> store, schema |-> TRUE, txn |-> FALSE,
     file |-> <<>>, tag |-> <<>>, file_tag |-> EmptyBag]

\* a database file without the schema (a file no CREATE TABLE was committed to)
NoSchemaDb(store) ==
    [store |-> store, schema |-> FALSE, txn |-> FALSE,
     file |-> <<>>, tag |-> <<>>, file_tag |-> EmptyBag]

\* the three tables of a database
Tables(db) == [file |-> db.file, tag |-> db.tag, file_tag |-> db.file_tag]

\* the statements of tag_file's sql_str, in order
TagFileSql == << "BEGIN", "INSERT_TAG", "INSERT_FILE", "INSERT_FILE_TAG", "COMMIT" >>

\* INSERT INTO file_tag ... SELECT file.id, tag.id FROM file, tag WHERE ... :
\* the rows the SELECT yields, each a (file_id, tag_id) pair
SelectFileTagIds(db, file, tag) ==
    { <<i, j>> \in (1..Len(db.file)) \X (1..Len(db.tag)) :
         db.file[i] = file /\ db.tag[j] = tag }

\* mutant: the association is never written
InsertFileTag_Dropped(db, ps) == [ok |-> TRUE, db |-> db]

\* mutant: file_tag has no unique index, every insert adds its rows
InsertFileTag_NoIndex(db, ps) ==
    [ok |-> TRUE, db |-> [db EXCEPT !.file_tag = @ (+) SetToBag(ps)]]

\* the insert of the pairs ps into file_tag: no OR IGNORE, so a pair that is
\* already there violates file_tag_uq and the statement fails (ABORT: the
\* statement's changes are undone, the transaction stays open)
InsertFileTag(db, ps) ==
    IF ps \cap BagToSet(db.file_tag) # {}
    THEN [ok |-> FALSE, db |-> db]
    ELSE [ok |-> TRUE, db |-> [db EXCEPT !.file_tag = @ (+) SetToBag(ps)]]

\* the locks a connection keeps on its store file from one call to the next:
\* read, SHARED kept for a statement get_tag_ids left standing on a row, or
\* for the open transaction once a SELECT was stepped in it; step, SHARED kept
\* for the statement of step_result standing on a row; write, the lock of
\* its open transaction: RESERVED once a statement of it has written, PENDING
\* once its COMMIT was refused
NoLock == [read |-> FALSE, step |-> FALSE, write |-> "NONE"]

\* what the statements of a call meet outside the tables: write, the lock of
\* the connection's open transaction; others, the locks other connections
\* keep on the same file; journal, the directory of the file lets SQLite make
\* the rollback journal.  A store in memory has no file: FreeCx.
FreeCx == [write |-> "NONE", others |-> { }, journal |-> TRUE]

\* sqlite3_step of an INSERT of sql_str whose effect on the tables is r: the
\* statement takes the RESERVED lock, which SQLite refuses (SQLITE_BUSY) while
\* another connection has one, and journals the pages before its first change
StepInsert(db, r, cx) ==
    IF cx.write = "NONE" /\ cx.others \cap { "RESERVED", "PENDING" } # { }
    THEN [ok |-> FALSE, db |-> db, write |-> cx.write]
    ELSE LET w == IF cx.write = "NONE" THEN "RESERVED" ELSE cx.write
         IN  IF r.db # db /\ ~cx.journal
             THEN [ok |-> FALSE, db |-> db, write |-> w]
             ELSE [ok |-> r.ok, db |-> r.db, write |-> w]

\* sqlite3_prepare_v2, the binds and sqlite3_step of one statement of sql_str:
\* ok is FALSE when one of them does not return SQLITE_OK / SQLITE_DONE.  On
\* the handle of a failed open (its store is << >>) no statement is prepared.
\* A COMMIT of changes needs the file to itself: it is refused (SQLITE_BUSY)
\* while another connection keeps a lock, and the transaction stays open.
ExecStatement(db, stmt, file, tag, cx) ==
    CASE stmt = "BEGIN" ->
           IF db.txn \/ << >> = db.store
           THEN [ok |-> FALSE, db |-> db, write |-> cx.write]
           ELSE [ok |-> TRUE, db |-> [db EXCEPT !.txn = TRUE], write |-> cx.write]
      [] stmt = "INSERT_TAG" ->
           IF ~db.schema THEN [ok |-> FALSE, db |-> db, write |-> cx.write]
           ELSE IF tag \in SeqRange(db.tag)
           THEN StepInsert(db, [ok |-> TRUE, db |-> db], cx)
           ELSE StepInsert(db, [ok |-> TRUE,
                                db |-> [db EXCEPT !.tag = Append(@, tag)]], cx)
      [] stmt = "INSERT_FILE" ->
           IF ~db.schema THEN [ok |-> FALSE, db |-> db, write |-> cx.write]
           ELSE IF file \in SeqRange(db.file)
           THEN StepInsert(db, [ok |-> TRUE, db |-> db], cx)
           ELSE StepInsert(db, [ok |-> TRUE,
                                db |-> [db EXCEPT !.file = Append(@, file)]], cx)
      [] stmt = "INSERT_FILE_TAG" ->
           IF ~db.schema THEN [ok |-> FALSE, db |-> db, write |-> cx.write]
           ELSE StepInsert(db, InsertFileTag(db, SelectFileTagIds(db, file, tag)),
                           cx)
      [] stmt = "COMMIT" ->
           IF ~db.txn THEN [ok |-> FALSE, db |-> db, write |-> cx.write]
           ELSE IF cx.write # "NONE" /\ cx.others # { }
           THEN [ok |-> FALSE, db |-> db, write |-> "PENDING"]
           ELSE [ok |-> TRUE, db |-> [db EXCEPT !.txn = FALSE], write |-> "NONE"]

RECURSIVE RunTagFileSql(_, _, _, _, _)
\* the while loop of tag_file from statement i on: it returns at the first
\* statement that fails, without a ROLLBACK and without finalizing
RunTagFileSql(db, i, file, tag, cx) ==
    IF i > Len(TagFileSql) THEN [ret |-> SUCCESS, db |-> db, write |-> cx.write]
    ELSE LET r == ExecStatement(db, TagFileSql[i], file, tag, cx)
         IN  IF ~r.ok THEN [ret |-> ERROR, db |-> r.db, write |-> r.write]
             ELSE RunTagFileSql(r.db, i + 1, file, tag,
                                [cx EXCEPT !.write = r.write])

\* the NULL check at the head of tag_file
TagFileArgsInvalid(file, tag) == file = NULL \/ tag = NULL

\* tag_file(file, tag) on the connection conn (a pointer), its statements
\* meeting cx: the value returned, the connection's database and the lock of
\* its transaction afterwards.  With dbconn NULL the first sqlite3_prepare_v2
\* fails.
tag_file(conn, file, tag, cx) ==
    IF TagFileArgsInvalid(file, tag)
    THEN [ret |-> ERROR, conn |-> conn, write |-> cx.write]
    ELSE IF conn = NULL THEN [ret |-> ERROR, conn |-> conn, write |-> cx.write]
    ELSE LET r == RunTagFileSql(Deref(conn), 1, Deref(file), Deref(tag), cx)
         IN  [ret |-> r.ret, conn |-> Ptr(r.db), write |-> r.write]

\* sqlite3_prepare_v2 of one statement of sql_str returns SQLITE_OK: not on
\* the handle of a failed open, and an INSERT only when its tables exist
Prepares(db, stmt) ==
    /\ << >> # db.store
    /\ stmt \in { "BEGIN", "COMMIT" } \/ db.schema

RECURSIVE UnfinalizedFrom(_, _, _, _, _)
\* the statements the while loop of tag_file leaves unfinalized from statement
\* i on: sqlite3_finalize is reached after a sqlite3_step that returned
\* SQLITE_DONE only, so a statement whose step fails stays prepared
UnfinalizedFrom(db, i, file, tag, cx) ==
    IF i > Len(TagFileSql) THEN 0
    ELSE LET r == ExecStatement(db, TagFileSql[i], file, tag, cx)
         IN  IF ~r.ok THEN (IF Prepares(db, TagFileSql[i]) THEN 1 ELSE 0)
             ELSE UnfinalizedFrom(r.db, i + 1, file, tag,
                                  [cx EXCEPT !.write = r.write])

\* the number of statements a call tag_file(file, tag) leaves unfinalized
tag_file_unfinalized(conn, file, tag, cx) ==
    IF TagFileArgsInvalid(file, tag) \/ conn = NULL THEN 0
    ELSE UnfinalizedFrom(Deref(conn), 1, Deref(file), Deref(tag), cx)

\* --------------------------------------------------------------- the queries
\* sqlite3_prepare_v2 of a SELECT on the connection conn returns SQLITE_OK:
\* there is a connection and it has the tables the statement names
PreparesSelect(conn) == conn # NULL /\ Deref(conn).schema

\* get_tag_ids(tagc, tagv), tagv a pointer to tagc names: NULL for a NULL
\* tagv and when the first sqlite3_prepare_v2 fails; else the buffer of ids,
\* SELECT id FROM tag WHERE name=? for every name, -1 for a name without a
\* row.  With tagc = 0 the loop is not entered and the buffer of malloc(0)
\* is returned.
get_tag_ids(conn, tagv) ==
    IF tagv = NULL THEN NULL
    ELSE IF Len(Deref(tagv)) = 0 THEN Ptr(<<>>)
    ELSE IF ~PreparesSelect(conn) THEN NULL
    ELSE Ptr([i \in 1..Len(Deref(tagv)) |->
                IF RowId(Deref(conn).tag, Deref(tagv)[i]) = 0 THEN -1
                ELSE RowId(Deref(conn).tag, Deref(tagv)[i])])

\* the number of statements get_tag_ids leaves unfinalized: one for every
\* name, with a row (break) or without (continue); sqlite3_finalize is called
\* under the label error only.  When the first prepare fails nothing is left.
get_tag_ids_unfinalized(conn, tagv) ==
    IF tagv = NULL \/ ~PreparesSelect(conn) THEN 0
    ELSE Len(Deref(tagv))

\* get_tag_ids leaves a statement standing on a row: the loop of sqlite3_step
\* breaks at SQLITE_ROW, for a name that has a row, and the statement is
\* neither stepped on nor reset
get_tag_ids_reads(conn, tagv) ==
    LET ids == get_tag_ids(conn, tagv)
    IN  /\ ids # NULL
        /\ \E i \in 1..Len(Deref(ids)) : Deref(ids)[i] # -1

\* get_tag_ids calls sqlite3_step on a SELECT: the loop is entered and the
\* statement prepared, whether the name has a row (SQLITE_ROW) or not
\* (SQLITE_DONE)
get_tag_ids_steps(conn, tagv) ==
    /\ get_tag_ids(conn, tagv) # NULL
    /\ Len(Deref(tagv)) > 0

\* SELECT DISTINCT f.relative_path FROM file AS f, file_tag AS x
\* WHERE f.id = x.file_id AND x.tag_id = ? : the paths selected for one id
PathsOfTagId(db, id) ==
    { db.file[p[1]] : p \in { q \in BagToSet(db.file_tag) : q[2] = id } }

\* mutant: only the first id is bound
BoundIds_FirstOnly(ids) == { ids[1] }

\* the ids filter_ids_any_tag binds: one sub-select per id, joined by UNION
BoundIds(ids) == { ids[i] : i \in 1..Len(ids) }

\* filter_ids_any_tag(tagc, ids): NULL or the statement, given by its rows in
\* the order SQLite yields them.  One id: file is scanned along the index
\* file_path_uq; several ids: the UNION is read back from a b-tree.  Both
\* give ascending paths.  No id at all: the malloc size wraps around and the
\* call returns NULL.  When sqlite3_prepare_v2 fails prep is NULL, the first
\* sqlite3_bind_int fails and NULL is returned.
filter_ids_any_tag(conn, ids) ==
    IF Len(ids) = 0 THEN NULL
    ELSE IF ~PreparesSelect(conn) THEN NULL
    ELSE Ptr(SortStrs(UNION { PathsOfTagId(Deref(conn), id) : id \in BoundIds(ids) }))

\* filter_all: SELECT DISTINCT relative_path FROM file, a scan of
\* file_path_uq; NULL when sqlite3_prepare_v2 fails
filter_all(conn) ==
    IF ~PreparesSelect(conn) THEN NULL
    ELSE Ptr(SortStrs(SeqRange(Deref(conn).file)))

\* the bits of the argument flags of filter_strs
FilterBits == { "FILTER_ANY_TAG", "FILTER_ALL_TAGS", "FILTER_ALL" }

\* filter_strs(tagc, tagv, flags): flags is the set of FILTER_ bits that are
\* set, tagv a pointer to tagc names
filter_strs(conn, tagv, flags) ==
    IF flags = {} THEN NULL
    ELSE IF "FILTER_ALL" \in flags THEN filter_all(conn)
    ELSE LET ids == get_tag_ids(conn, tagv)
         IN  IF ids = NULL THEN NULL
             ELSE IF "FILTER_ANY_TAG" \in flags
                  THEN filter_ids_any_tag(conn, Deref(ids))
                  ELSE NULL

\* the number of statements filter_strs leaves unfinalized besides the one it
\* returns: those of get_tag_ids, which is called whenever a flag is set and
\* FILTER_ALL is not
filter_strs_unfinalized(conn, tagv, flags) ==
    IF flags = {} \/ "FILTER_ALL" \in flags THEN 0
    ELSE get_tag_ids_unfinalized(conn, tagv)

\* filter_strs leaves a statement standing on a row: one of get_tag_ids
filter_strs_reads(conn, tagv, flags) ==
    IF flags = {} \/ "FILTER_ALL" \in flags THEN FALSE
    ELSE get_tag_ids_reads(conn, tagv)

\* filter_strs calls sqlite3_step on a SELECT: under FILTER_ANY_TAG, in
\* get_tag_ids; filter_all and filter_ids_any_tag prepare and do not step
filter_strs_steps(conn, tagv, flags) ==
    IF flags = {} \/ "FILTER_ALL" \in flags THEN FALSE
    ELSE get_tag_ids_steps(conn, tagv)

\* the names a statement of filter_strs selects by: none under FILTER_ALL
SelectedNames(tagv, flags) ==
    IF "FILTER_ALL" \in flags THEN <<>> ELSE Deref(tagv)

\* main_filter's choice of flags from argc
FilterFlags(tagv) == IF Len(tagv) = 0 THEN {"FILTER_ALL"} ELSE {"FILTER_ANY_TAG"}

\* mutant: the join condition on the file is left out
TagIdsOfFile_AnyFile(db, fid, from) ==
    LET ids == { q[2] : q \in BagToSet(db.file_tag) }
    IN  IF fid = 0 THEN <<>>
        ELSE [k \in 1..Cardinality(ids) |->
                CHOOSE i \in ids : Cardinality({ j \in ids : j < i }) = k - 1]

\* the tag ids of the file_tag rows of file id fid, ascending: the order of the
\* index file_tag_uq (file_id, tag_id) that the join of list_by_file walks
RECURSIVE TagIdsOfFile(_, _, _)
TagIdsOfFile(db, fid, from) ==
    IF from > Len(db.tag) THEN <<>>
    ELSE (IF BagIn(<<fid, from>>, db.file_tag) THEN <<from>> ELSE <<>>)
         \o TagIdsOfFile(db, fid, from + 1)

\* list_by_file: SELECT DISTINCT t.name FROM tag AS t, file AS f, file_tag AS x
\* WHERE t.id = x.tag_id AND x.file_id = f.id AND f.relative_path = ?
\* The rows come in the order of x.tag_id; there is no ORDER BY.
list_by_file(conn, path) ==
    IF conn = NULL \/ ~Deref(conn).schema THEN NULL
    ELSE LET db == Deref(conn)
             ids == TagIdsOfFile(db, RowId(db.file, path), 1)
         IN  Ptr([k \in 1..Len(ids) |-> db.tag[ids[k]]])

\* list_all_tags: SELECT DISTINCT name FROM tag, a scan of tag_name_uq
list_all_tags(conn) ==
    IF conn = NULL \/ ~Deref(conn).schema THEN NULL
    ELSE Ptr(SortStrs(SeqRange(Deref(conn).tag)))

\* ---------------------------------------------------------- the result stream
\* mutant: the showhidden flag is not looked at
Hidden_IgnoresFlag(str, sh) == Len(str) > 0 /\ str[1] = Dot

\* the test of step_result: !showhidden && *str == '.'
Hidden(str, sh) == sh = 0 /\ Len(str) > 0 /\ str[1] = Dot

RECURSIVE NextRow(_, _, _)
\* the loop at label top: the first row from j on that is returned, 0 when
\* sqlite3_step reaches SQLITE_DONE first
NextRow(rows, j, sh) ==
    IF j > Len(rows) THEN 0
    ELSE IF Hidden(rows[j], sh) THEN NextRow(rows, j + 1, sh)
    ELSE j

\* a statement handed out by a query, before its first step
NewCursor(op, arg, rows) ==
    [op |-> op, arg |-> arg, rows |-> rows, pos |-> 0, atEnd |-> FALSE,
     ended |-> 0, out |-> <<>>]

\* step_result on the statement cur: the string returned (NULL at the end) and
\* the statement afterwards.  A statement that has returned SQLITE_DONE is
\* reset by the next sqlite3_step and runs again from its first row.
step_result(cur, sh) ==
    LET from == IF cur.atEnd THEN 1 ELSE cur.pos + 1
        j == NextRow(cur.rows, from, sh)
    IN  IF j = 0
        THEN [ret |-> NULL,
              cur |-> [cur EXCEPT !.pos = Len(cur.rows), !.atEnd = TRUE,
                                  !.ended = @ + 1]]
        ELSE [ret |-> Ptr(cur.rows[j]),
              cur |-> [cur EXCEPT !.pos = j, !.atEnd = FALSE,
                                  !.out = Append(@, cur.rows[j])]]

\* -------------------------------------------------------- the path resolver
\* DB_FILENAME
DbFilename == ".ftagdb"

\* the file of the working directory that the relative path fn names
FileOf(fn) == IF fn = "./:memory:" THEN ":memory:" ELSE fn

\* the permission bits of a directory: read (list it, open it), write (make
\* a file in it), search (enter it, reach what is in it)
DirBits == { "r", "w", "x" }

\* The permissions the process has are a function m of the directories:
\* m[d].dir are the bits it has on the directory of depth d, m[d].noread the
\* files of that directory it may neither read nor write (mode 000); every
\* other file it may read and write.

\* the process may search the directory of depth d
Searchable(m, d) == "x" \in m[d].dir

\* open(".", O_RDONLY) succeeds in the directory of depth d
OpenDot(m, d) == { "r", "x" } \subseteq m[d].dir

\* access(fn, R_OK) == 0 in the directory of depth d
Readable(dsk, m, d, fn) ==
    /\ Searchable(m, d)
    /\ dsk[d][FileOf(fn)] # NULL
    /\ FileOf(fn) \notin m[d].noread

\* chdir(".."): the parent of / is / itself
Parent(d) == IF d = 0 THEN 0 ELSE d - 1

\* the working directory after chdir("..") in the directory of depth d: the
\* call fails when the directory or its parent may not be searched; its
\* value is not looked at, the working directory stays
ChdirUp(m, d) ==
    IF Searchable(m, d) /\ Searchable(m, Parent(d)) THEN Parent(d) ELSE d

RECURSIVE StuckDir(_, _, _, _)
\* the directory the while loop of chdir_to_db stays in for ever, entered in
\* the directory of depth d: one that is not /, where the file is not
\* readable and chdir("..") fails.  NULL when the loop ends.
StuckDir(dsk, m, fn, d) ==
    IF Readable(dsk, m, d, fn) \/ d = 0 THEN NULL
    ELSE IF ChdirUp(m, d) = d THEN Ptr(d)
    ELSE StuckDir(dsk, m, fn, ChdirUp(m, d))

\* the while loop of chdir_to_db(fn) never ends
Hangs(dsk, m, fn, d) == fn # NULL /\ StuckDir(dsk, m, Deref(fn), d) # NULL

RECURSIVE Ascend(_, _, _, _, _)
\* the while loop of chdir_to_db in the directory of depth d, entered at
\* depth start, when it ends: getcwd(buf, 2) succeeds in / only, whose depth
\* is 0.  There fchdir(startdir) takes the process back, unless open(".")
\* had failed: startdir is -1 then, fchdir fails and the process stays in /.
Ascend(dsk, m, fn, d, start) ==
    IF Readable(dsk, m, d, fn) THEN [ret |-> SUCCESS, cwd |-> d]
    ELSE IF d = 0
         THEN [ret |-> ERROR, cwd |-> IF OpenDot(m, start) THEN start ELSE d]
    ELSE Ascend(dsk, m, fn, ChdirUp(m, d), start)

RECURSIVE AscendProbes(_, _, _, _, _)
\* the directories the first n rounds of the while loop of chdir_to_db call
\* access(fn, R_OK) in, in order, entered in the directory of depth d: the
\* loop is left by break when the file is readable and by return when
\* getcwd(buf, 2) succeeds, which it does in / only; else chdir("..") and
\* the next round
AscendProbes(dsk, m, fn, d, n) ==
    IF n = 0 THEN << >>
    ELSE IF Readable(dsk, m, d, fn) THEN << d >>
    ELSE IF d = 0 THEN << d >>
    ELSE << d >> \o AscendProbes(dsk, m, fn, ChdirUp(m, d), n - 1)

\* the calls of access(fn, R_OK) of chdir_to_db(fn) in the directory of depth
\* d, the first d + 2 of them when there are more
chdir_to_db_probes(dsk, m, fn, d) ==
    IF fn = NULL THEN << >>
    ELSE AscendProbes(dsk, m, Deref(fn), d, d + 2)

\* chdir_to_db(fn) called in the directory of depth d, when the call ends:
\* the value returned and the working directory afterwards
chdir_to_db(dsk, m, fn, d) ==
    IF fn = NULL THEN [ret |-> ERROR, cwd |-> d]
    ELSE Ascend(dsk, m, Deref(fn), d, d)

\* the file name init_db goes on with
EffectiveName(fn) ==
    IF fn = NULL THEN DbFilename
    ELSE IF Deref(fn) = ":memory:" THEN "./:memory:"
    ELSE Deref(fn)

\* chdir(dir) == 0 for the directory of depth dir, named from /
Enterable(m, dir) == \A k \in 0..dir : Searchable(m, k)

\* the working directory after init_db's chdir_to_db(fn) or chdir(dir); an
\* explicit dir is the depth of a directory of the chain
DirAfter(dsk, m, name, dir, d) ==
    IF dir = NULL THEN chdir_to_db(dsk, m, Ptr(name), d).cwd
    ELSE Deref(dir)

\* the store field of a handle that sqlite3_open_v2 has set without opening
\* a database
NoStore == << >>

\* the handle sqlite3_open_v2 leaves in dbconn when it fails: every
\* sqlite3_prepare_v2 on it fails, sqlite3_close releases it
FailedOpen ==
    [store |-> NoStore, schema |-> FALSE, txn |-> FALSE,
     file |-> <<>>, tag |-> <<>>, file_tag |-> EmptyBag]

\* sqlite3_open_v2 reaches the file name of the directory of depth d: SQLite
\* opens it by its full path, every directory of which must be searchable
Reaches(m, d) == \A k \in 0..d : Searchable(m, k)

\* the database is kept in a file
IsFile(db) == << >> # db.store /\ db.store # "memory"

\* the locks that connections which close_db left open keep on the file store
OthersOn(lk, store) == { l[2] : l \in { x \in lk : x[1] = store } }

\* the results of run_init_db_sql: sqlite3_exec returns SQLITE_OK, or the
\* code of the statement that failed and goes no further: BEGIN IMMEDIATE,
\* before anything was written, or the COMMIT, which another process with a
\* lock on the new file makes fail.  It runs no ROLLBACK.
SqlResults == { "SQLITE_OK", "BEGIN_FAILED", "COMMIT_FAILED" }

\* the connection run_init_db_sql leaves on the store it was called on: with
\* the tables, when the COMMIT was reached, and inside the transaction still,
\* when the COMMIT failed
AfterInitSql(store, sqlrc) ==
    CASE sqlrc = "SQLITE_OK" -> EmptyDb(store)
      [] sqlrc = "BEGIN_FAILED" -> NoSchemaDb(store)
      [] sqlrc = "COMMIT_FAILED" -> [EmptyDb(store) EXCEPT !.txn = TRUE]

\* init_db past its chdir, in the directory of depth d: sqlite3_open_v2
\* READWRITE opens an existing file as it is; otherwise READWRITE | CREATE
\* makes the file, when the directory may be written, and run_init_db_sql,
\* whose result is sqlrc, gives it the schema: the file has it once the
\* COMMIT has succeeded.  When both opens fail dbconn is left with the handle
\* of the failed open (the handle the READWRITE open left is overwritten by
\* the second open and never closed).  The bare name :memory: is no file name
\* to sqlite3_open_v2: it opens a new database in memory, which has no
\* schema.  lk are the locks kept on store files by connections that
\* close_db left open: a PENDING lock lets no other connection read the file,
\* so that the connection opened on it finds no table.  write is the lock of
\* the transaction the call leaves open.
OpenOrCreate(dsk, m, name, d, sqlrc, lk) ==
    IF name = ":memory:"
    THEN [ret |-> SUCCESS, conn |-> Ptr(NoSchemaDb("memory")), disk |-> dsk,
          created |-> FALSE, write |-> "NONE"]
    ELSE IF /\ Reaches(m, d)
            /\ dsk[d][FileOf(name)] # NULL
            /\ FileOf(name) \notin m[d].noread
    THEN [ret |-> SUCCESS,
          conn |-> IF "PENDING" \in OthersOn(lk, << d, FileOf(name) >>)
                   THEN Ptr([Deref(dsk[d][FileOf(name)]) EXCEPT !.schema = FALSE])
                   ELSE dsk[d][FileOf(name)],
          disk |-> dsk, created |-> FALSE, write |-> "NONE"]
    ELSE IF /\ Reaches(m, d)
            /\ dsk[d][FileOf(name)] = NULL
            /\ "w" \in m[d].dir
    THEN [ret |-> IF sqlrc = "SQLITE_OK" THEN SUCCESS ELSE ERROR,
          conn |-> Ptr(AfterInitSql(<< d, FileOf(name) >>, sqlrc)),
          disk |-> [dsk EXCEPT ![d][FileOf(name)] =
                      IF sqlrc = "SQLITE_OK"
                      THEN Ptr(EmptyDb(<< d, FileOf(name) >>))
                      ELSE Ptr(NoSchemaDb(<< d, FileOf(name) >>))],
          created |-> TRUE,
          write |-> IF sqlrc = "COMMIT_FAILED" THEN "PENDING" ELSE "NONE"]
    ELSE [ret |-> ERROR, conn |-> Ptr(FailedOpen), disk |-> dsk,
          created |-> FALSE, write |-> "NONE"]

\* -------------------------------------------------------------------- state
VARIABLES
    dbconn,      \* the global dbconn: NULL or a pointer to the open database
    showhidden,  \* the global showhidden
    cursor,      \* the caller's step_t *step: NULL or a prepared statement
    last,        \* the last call: its name, arguments and return value
    cwd,         \* the working directory: its depth below the root /
    disk,        \* the database files of each directory of the chain / .. cwd
    exited,      \* the process has ended: main returned or exit() was called
    tagged,      \* history: the (file, tag) pairs tag_file returned SUCCESS
                 \* for, on the store in memory since it was opened
                 \* (memory) and on each store file (files: store, file, tag)
    stmts,       \* the statements of the connection behind dbconn that were
                 \* prepared and not finalized, the caller's step aside
    leaked,      \* the number of connections sqlite3_close did not close:
                 \* dbconn was set to NULL while the connection stayed open
    looping,     \* the process is in the while loop of chdir_to_db and does
                 \* not leave it
    mode,        \* the permissions the process has on the directories of the
                 \* chain and on their files
    atexits,     \* the number of times close_db is registered with atexit
    opens,       \* the number of calls of init_db and init_memory_db of
                 \* the process that went on to sqlite3_open_v2
    held,        \* the locks the connection behind dbconn keeps on its
                 \* store file
    locks        \* the locks kept on store files by the connections that
                 \* close_db left open: pairs of a store and a kind of lock

vars == << dbconn, showhidden, cursor, last, cwd, disk, exited, tagged,
           stmts, leaked, looping, mode, atexits, opens, held, locks >>

\* the file names a database is kept under
DiskNames == { ".ftagdb", ":memory:" }

Dirs == 0..MaxDepth

\* every directory may be read, written and searched, every file read
AllPermitted == [d \in Dirs |-> [dir |-> DirBits, noread |-> { }]]

\* what the statements of a call on the connection conn meet: the lock h.write
\* of its transaction, the locks lk of the connections left open, and the
\* permissions m on the directory of its file
Cx(conn, h, lk, m) ==
    IF conn = NULL THEN FreeCx
    ELSE IF ~IsFile(Deref(conn)) THEN FreeCx
    ELSE [write |-> h.write,
          others |-> OthersOn(lk, Deref(conn).store),
          journal |-> { "w", "x" } \subseteq m[Deref(conn).store[1]].dir]

\* the connection conn keeps locks on a file
OnFile(conn) == conn # NULL /\ IsFile(Deref(conn))

\* the kinds of lock behind h
KindsOf(h) ==
    (IF h.read \/ h.step THEN { "SHARED" } ELSE { })
    \cup (IF h.write # "NONE" THEN { h.write } ELSE { })

\* the connection conn is in a transaction that has not written: BEGIN was
\* executed and the first INSERT refused.  SQLite gives up the SHARED lock of
\* a SELECT when the statement ends only in autocommit mode; inside the
\* transaction the lock stays until the transaction ends, at SQLITE_DONE and
\* after sqlite3_finalize too.
KeepsShared(conn, h) ==
    OnFile(conn) /\ Deref(conn).txn /\ h.write = "NONE"

\* a COMMIT writes the tables of a database kept in a file to that file
WriteBack(d, conn) ==
    IF /\ conn # NULL
       /\ Deref(conn).store # "memory"
       /\ Deref(conn).store # NoStore
       /\ ~Deref(conn).txn
    THEN [d EXCEPT ![Deref(conn).store[1]][Deref(conn).store[2]] = conn]
    ELSE d

\* the arguments tag_file is called with
FileArgs == { NULL } \cup { Ptr(f) : f \in FileNames }
TagArgs == { NULL } \cup { Ptr(t) : t \in TagNames }

RECURSIVE SeqsUpTo(_, _)
\* the sequences over S of length 0..n
SeqsUpTo(S, n) ==
    IF n = 0 THEN { <<>> }
    ELSE SeqsUpTo(S, n - 1)
         \cup { Append(q, x) : q \in { r \in SeqsUpTo(S, n - 1) : Len(r) = n - 1 },
                               x \in S }

\* the (file, tag) pairs tag_file returned SUCCESS for on the store behind
\* conn
TaggedOn(tg, conn) ==
    IF conn = NULL THEN { }
    ELSE IF IsFile(Deref(conn))
    THEN { << p[2], p[3] >> : p \in { q \in tg.files : q[1] = Deref(conn).store } }
    ELSE IF Deref(conn).store = "memory" THEN tg.memory
    ELSE { }

\* tag_file(file, tag) has returned SUCCESS on the store behind conn
Tagged(tg, conn, file, tag) ==
    IF IsFile(Deref(conn))
    THEN [tg EXCEPT !.files = @ \cup { << Deref(conn).store, file, tag >> }]
    ELSE [tg EXCEPT !.memory = @ \cup { << file, tag >> }]

\* ------------------------------------------------------------------ actions
\* the process ends, in exit() or returning from main: the functions
\* registered with atexit run (close_db), and with the process go its
\* connections, the statements and locks of each, and the store in memory;
\* what was committed to a store file stays
ProcessEnds ==
    /\ exited' = TRUE
    /\ dbconn' = NULL
    /\ cursor' = NULL
    /\ stmts' = 0
    /\ leaked' = 0
    /\ held' = NoLock
    /\ locks' = { }
    /\ tagged' = [tagged EXCEPT !.memory = { }]

\* main, case 'a': the option loop runs before init_db
ShowHidden ==
    /\ ~exited
    /\ ~looping
    /\ dbconn = NULL
    /\ cursor = NULL
    /\ showhidden = 0
    /\ showhidden' = 1
    /\ last' = [op |-> "show_hidden"]
    /\ UNCHANGED << dbconn, cursor, cwd, disk, exited, tagged, stmts, leaked, looping, mode, atexits, opens, held, locks >>

\* init_memory_db.  The tests call it with no statement in hand.
InitMemoryDb ==
    /\ ~exited
    /\ ~looping
    /\ cursor = NULL
    /\ IF dbconn # NULL
       THEN /\ last' = [op |-> "init_memory_db", ret |-> ERROR,
                        pre |-> dbconn, predisk |-> disk]
            /\ UNCHANGED dbconn
            /\ UNCHANGED opens
       ELSE /\ opens < MaxOpens
            /\ opens' = opens + 1
            /\ dbconn' = Ptr(EmptyDb("memory"))
            /\ last' = [op |-> "init_memory_db", ret |-> SUCCESS,
                        pre |-> dbconn, predisk |-> disk]
    /\ UNCHANGED << showhidden, cursor, cwd, disk, exited, tagged, stmts, leaked, looping, mode, atexits, held, locks >>

\* sqlite3_close on a connection with n unfinalized statements: SQLITE_BUSY
\* and the connection stays open when n > 0
sqlite3_close(n) == IF n > 0 THEN "SQLITE_BUSY" ELSE "SQLITE_OK"

\* close_db: the value of sqlite3_close is not looked at and dbconn is set to
\* NULL.  A connection that sqlite3_close left open keeps its transaction and
\* its locks; one that it closed gives them up.  main_filter, main_list and the tests free their statement before
\* the store is closed.
CloseDb ==
    /\ ~exited
    /\ ~looping
    /\ cursor = NULL
    /\ dbconn # NULL
    /\ dbconn' = NULL
    /\ tagged' = [tagged EXCEPT !.memory = { }]
    /\ stmts' = 0
    /\ leaked' = IF sqlite3_close(stmts) = "SQLITE_BUSY" THEN leaked + 1
                  ELSE leaked
    /\ locks' = IF sqlite3_close(stmts) = "SQLITE_BUSY" /\ OnFile(dbconn)
                 THEN locks \cup { << Deref(dbconn).store, k >> : k \in KindsOf(held) }
                 ELSE locks
    /\ held' = NoLock
    /\ last' = [op |-> "close_db", status |-> sqlite3_close(stmts),
                stmts |-> stmts]
    /\ UNCHANGED << showhidden, cursor, cwd, disk, exited, looping, mode, atexits, opens >>

\* tag_file(file, tag).  main_filter, main_list and the tests drain and free
\* a statement before the next call on the store, so no statement is open.
TagFile(file, tag) ==
    /\ ~exited
    /\ ~looping
    /\ cursor = NULL
    /\ LET n == tag_file_unfinalized(dbconn, file, tag,
                                      Cx(dbconn, held, locks, mode))
       IN  /\ stmts + n <= MaxStmts
           /\ stmts' = stmts + n
    /\ LET r == tag_file(dbconn, file, tag, Cx(dbconn, held, locks, mode))
       IN  /\ dbconn' = r.conn
           /\ held' = IF OnFile(dbconn) THEN [held EXCEPT !.write = r.write]
                       ELSE held
           /\ disk' = IF r.ret = SUCCESS THEN WriteBack(disk, r.conn) ELSE disk
           /\ tagged' = IF r.ret = SUCCESS
                         THEN Tagged(tagged, dbconn, Deref(file), Deref(tag))
                         ELSE tagged
           /\ last' = [op |-> "tag_file", file |-> file, tag |-> tag,
                       ret |-> r.ret, pre |-> dbconn,
                       again |-> /\ file # NULL
                                 /\ tag # NULL
                                 /\ << Deref(file), Deref(tag) >>
                                       \in TaggedOn(tagged, dbconn)]
    /\ UNCHANGED << showhidden, cursor, cwd, exited, leaked, looping, mode, atexits, opens, locks >>

\* the lists of names main_filter is called with
TagLists == SeqsUpTo(TagNames, MaxTagc)

\* the arguments tagv filter_strs and get_tag_ids are called with on their
\* own: NULL, no name, "a", and ".x" with "a"
TagvArgs == { NULL, Ptr(<<>>), Ptr(<< <<97>> >>), Ptr(<< <<46, 120>>, <<97>> >>) }

\* the arguments flags filter_strs is called with: no bit, or one
FlagArgs == { {} } \cup { { b } : b \in FilterBits }

\* the arguments ids filter_ids_any_tag is called with: one id, two ids, and
\* the id -1 that get_tag_ids gives for a name without a row
IdArgs == { <<2>>, <<1, 2>>, <<-1, 1>> }

\* main_filter up to its call of filter_strs: argv is not NULL
Filter(tagv) ==
    /\ ~exited
    /\ ~looping
    /\ cursor = NULL
    /\ LET n == filter_strs_unfinalized(dbconn, Ptr(tagv), FilterFlags(tagv))
       IN  /\ stmts + n <= MaxStmts
           /\ stmts' = stmts + n
    /\ LET step == filter_strs(dbconn, Ptr(tagv), FilterFlags(tagv))
       IN  /\ cursor' = IF step = NULL THEN NULL
                        ELSE Ptr(NewCursor("filter", tagv, Deref(step)))
           /\ last' = [op |-> "filter", tagv |-> tagv,
                       ret |-> IF step = NULL THEN ERROR ELSE SUCCESS]
    /\ held' = IF /\ OnFile(dbconn)
                   /\ \/ filter_strs_reads(dbconn, Ptr(tagv), FilterFlags(tagv))
                      \/ /\ KeepsShared(dbconn, held)
                         /\ filter_strs_steps(dbconn, Ptr(tagv), FilterFlags(tagv))
                THEN [held EXCEPT !.read = TRUE] ELSE held
    /\ UNCHANGED << dbconn, showhidden, cwd, disk, exited, tagged, leaked, looping, mode, atexits, opens, locks >>

\* filter_strs(tagc, tagv, flags) called on its own.  Without a flag and
\* under FILTER_ALL tagv is not looked at: one tagv stands for all.
FilterStrs(tagv, flags) ==
    /\ ~exited
    /\ ~looping
    /\ cursor = NULL
    /\ (flags = {} \/ "FILTER_ALL" \in flags) => tagv = NULL
    /\ LET n == filter_strs_unfinalized(dbconn, tagv, flags)
       IN  /\ stmts + n <= MaxStmts
           /\ stmts' = stmts + n
    /\ LET step == filter_strs(dbconn, tagv, flags)
       IN  /\ cursor' = IF step = NULL THEN NULL
                        ELSE Ptr(NewCursor("filter", SelectedNames(tagv, flags),
                                           Deref(step)))
           /\ last' = [op |-> "filter_strs", ret |-> step]
    /\ held' = IF /\ OnFile(dbconn)
                   /\ \/ filter_strs_reads(dbconn, tagv, flags)
                      \/ /\ KeepsShared(dbconn, held)
                         /\ filter_strs_steps(dbconn, tagv, flags)
                THEN [held EXCEPT !.read = TRUE] ELSE held
    /\ UNCHANGED << dbconn, showhidden, cwd, disk, exited, tagged, leaked, looping, mode, atexits, opens, locks >>

\* get_tag_ids(tagc, tagv) called on its own, as test_get_tag_ids does; the
\* buffer returned is the caller's
GetTagIds(tagv) ==
    /\ ~exited
    /\ ~looping
    /\ cursor = NULL
    /\ LET n == get_tag_ids_unfinalized(dbconn, tagv)
       IN  /\ stmts + n <= MaxStmts
           /\ stmts' = stmts + n
    /\ last' = [op |-> "get_tag_ids", ret |-> get_tag_ids(dbconn, tagv)]
    /\ held' = IF /\ OnFile(dbconn)
                   /\ \/ get_tag_ids_reads(dbconn, tagv)
                      \/ /\ KeepsShared(dbconn, held)
                         /\ get_tag_ids_steps(dbconn, tagv)
                THEN [held EXCEPT !.read = TRUE] ELSE held
    /\ UNCHANGED << dbconn, showhidden, cursor, cwd, disk, exited, tagged, leaked, looping, mode, atexits, opens, locks >>

\* filter_ids_any_tag(tagc, ids) called on its own, as
\* test_filter_ids_any_tag_one and _two do: it prepares the statement it
\* returns and no other
FilterIdsAnyTag(ids) ==
    /\ ~exited
    /\ ~looping
    /\ cursor = NULL
    /\ LET step == filter_ids_any_tag(dbconn, ids)
       IN  /\ cursor' = IF step = NULL THEN NULL
                        ELSE Ptr(NewCursor("filter_ids", ids, Deref(step)))
           /\ last' = [op |-> "filter_ids_any_tag", ret |-> step]
    /\ UNCHANGED << dbconn, showhidden, cwd, disk, exited, tagged, stmts, leaked, looping, mode, atexits, opens, held, locks >>

\* main_list up to its call of list_all_tags (argc = 0: path is NULL) or
\* list_by_file (argc = 1)
List(path) ==
    /\ ~exited
    /\ ~looping
    /\ cursor = NULL
    /\ LET step == IF path = NULL THEN list_all_tags(dbconn)
                   ELSE list_by_file(dbconn, Deref(path))
       IN  /\ cursor' = IF step = NULL THEN NULL
                        ELSE Ptr(NewCursor("list", path, Deref(step)))
           /\ last' = [op |-> "list", path |-> path,
                       ret |-> IF step = NULL THEN ERROR ELSE SUCCESS]
    /\ UNCHANGED << dbconn, showhidden, cwd, disk, exited, tagged, stmts, leaked, looping, mode, atexits, opens, held, locks >>

\* one call of step_result on the open statement.  sqlite3_step may return an
\* error code (SQLITE_BUSY, SQLITE_IOERR, SQLITE_NOMEM, ...) in place of a row
\* or SQLITE_DONE; step_result then calls exit(ERROR), and the process is
\* gone with its connections and statements.  A statement that stands on a
\* row of a store file keeps a SHARED lock on the file; at SQLITE_DONE the
\* statement is reset and gives the lock up, unless the connection is in a
\* transaction: then the lock is the transaction's and stays.
StepResult ==
    /\ ~exited
    /\ ~looping
    /\ cursor # NULL
    /\ Deref(cursor).ended < MaxEnds
    /\ \E status \in { "SQLITE_ROW_OR_DONE", "SQLITE_ERROR" } :
          IF status = "SQLITE_ERROR"
          THEN /\ ProcessEnds
               /\ last' = [op |-> "exit", from |-> "step_result"]
          ELSE LET r == step_result(Deref(cursor), showhidden)
               IN  /\ cursor' = Ptr(r.cur)
                   /\ held' = IF OnFile(dbconn)
                               THEN [held EXCEPT
                                       !.step = (r.ret # NULL),
                                       !.read = @ \/ KeepsShared(dbconn, held)]
                               ELSE held
                   /\ last' = [op |-> "step_result", ret |-> r.ret]
                   /\ UNCHANGED << dbconn, exited, tagged, stmts, leaked, locks >>
    /\ UNCHANGED << showhidden, cwd, disk, looping, mode, atexits, opens >>

\* free_step: sqlite3_finalize gives up the lock of the statement; the lock
\* an open transaction keeps since the statement was stepped (held.read)
\* stays
FreeStep ==
    /\ ~exited
    /\ ~looping
    /\ cursor # NULL
    /\ cursor' = NULL
    /\ held' = [held EXCEPT !.step = FALSE]
    /\ last' = [op |-> "free_step"]
    /\ UNCHANGED << dbconn, showhidden, cwd, disk, exited, tagged, stmts, leaked, looping, mode, atexits, opens, locks >>

\* the file names chdir_to_db is called with
FnArgs == { NULL, Ptr(DbFilename), Ptr(":memory:") }

\* the file names init_db is called with: none, which stands for .ftagdb, or
\* :memory:
InitFnArgs == { NULL, Ptr(":memory:") }

\* the directories init_db is called with: none, or the directory between /
\* and the one the process is started in
DirArgs == { NULL, Ptr(1) }

\* the process stays in the while loop of chdir_to_db(fn), entered in the
\* working directory: it is left calling access in the directory where
\* chdir("..") fails
EnterLoop(fn) ==
    /\ looping' = TRUE
    /\ cwd' = Deref(StuckDir(disk, mode, Deref(fn), cwd))
    /\ last' = [op |-> "chdir_to_db_loop", fn |-> fn, precwd |-> cwd,
                probes |-> chdir_to_db_probes(disk, mode, fn, cwd)]

\* chdir_to_db(fn), called on its own: the tests call it with a NULL fn, in
\* any state; with a file name it is called where init_db calls it, past
\* the check of dbconn
ChdirToDb(fn) ==
    /\ ~exited
    /\ ~looping
    /\ fn # NULL => dbconn = NULL
    /\ IF Hangs(disk, mode, fn, cwd)
       THEN EnterLoop(fn)
       ELSE LET r == chdir_to_db(disk, mode, fn, cwd)
            IN  /\ cwd' = r.cwd
                /\ last' = [op |-> "chdir_to_db", fn |-> fn, ret |-> r.ret,
                            precwd |-> cwd,
                            probes |-> chdir_to_db_probes(disk, mode, fn, cwd)]
                /\ UNCHANGED looping
    /\ UNCHANGED << dbconn, showhidden, cursor, disk, exited, tagged, stmts, leaked, mode, atexits, opens, held, locks >>

\* init_db(fn, dir) with a dir that exists; sqlrc is the result of
\* run_init_db_sql, looked at only when the call makes the file.  A dir that
\* may not be entered makes chdir fail and the process exit; the functions
\* registered with atexit then find dbconn NULL.
InitDb(fn, dir, sqlrc) ==
    /\ ~exited
    /\ ~looping
    /\ IF dbconn # NULL
       THEN /\ sqlrc = "SQLITE_OK"
            /\ last' = [op |-> "init_db", ret |-> ERROR, precwd |-> cwd,
                        predisk |-> disk, pre |-> dbconn, open |-> TRUE]
            /\ UNCHANGED << dbconn, cwd, disk, looping, exited, atexits, opens, held,
                            cursor, tagged, stmts, leaked, locks >>
       ELSE IF dir # NULL /\ ~Enterable(mode, Deref(dir))
       THEN /\ sqlrc = "SQLITE_OK"
            /\ ProcessEnds
            /\ last' = [op |-> "init_db_nodir"]
            /\ UNCHANGED << cwd, disk, looping, atexits, opens >>
       ELSE IF dir = NULL /\ Hangs(disk, mode, Ptr(EffectiveName(fn)), cwd)
       THEN /\ sqlrc = "SQLITE_OK"
            /\ EnterLoop(Ptr(EffectiveName(fn)))
            /\ UNCHANGED << dbconn, disk, exited, atexits, opens, held,
                            cursor, tagged, stmts, leaked, locks >>
       ELSE LET name == EffectiveName(fn)
                d == DirAfter(disk, mode, name, dir, cwd)
                r == OpenOrCreate(disk, mode, name, d, sqlrc, locks)
            IN  /\ sqlrc = "SQLITE_OK" \/ r.created
                /\ opens < MaxOpens
                /\ opens' = opens + 1
                /\ atexits' = IF r.ret = SUCCESS THEN atexits + 1 ELSE atexits
                /\ cwd' = d
                /\ dbconn' = r.conn
                /\ held' = [NoLock EXCEPT !.write = r.write]
                /\ disk' = r.disk
                /\ last' = [op |-> "init_db", fn |-> fn, dir |-> dir,
                            ret |-> r.ret, precwd |-> cwd, predisk |-> disk,
                            open |-> FALSE]
                /\ UNCHANGED << looping, exited, cursor, tagged, stmts, leaked, locks >>
    /\ UNCHANGED << showhidden, mode >>

\* init_db(fn, dir) with a dir that does not exist: chdir fails and the
\* process exits
InitDbNoDir(fn) ==
    /\ ~exited
    /\ ~looping
    /\ IF dbconn # NULL
       THEN /\ last' = [op |-> "init_db_nodir", ret |-> ERROR]
            /\ UNCHANGED << exited, dbconn, cursor, tagged, stmts, leaked, held, locks >>
       ELSE /\ last' = [op |-> "init_db_nodir"]
            /\ ProcessEnds
    /\ UNCHANGED << showhidden, cwd, disk, looping, mode, atexits, opens >>

\* the process ends: main returns, or calls exit() after an operation failed
Exit ==
    /\ ~exited
    /\ ~looping
    /\ ProcessEnds
    /\ last' = [op |-> "exit", from |-> "main"]
    /\ UNCHANGED << showhidden, cwd, disk, looping, mode, atexits, opens >>

\* the program is run again, in the directory the first run was started in:
\* a new process, on the files the earlier ones left
Exec ==
    /\ exited
    /\ exited' = FALSE
    /\ showhidden' = 0
    /\ atexits' = 0
    /\ cwd' = MaxDepth
    /\ opens' = 0
    /\ last' = [op |-> "exec"]
    /\ UNCHANGED << dbconn, cursor, disk, tagged, stmts, leaked, looping, mode, held, locks >>

\* ------------------------------------------------------------ specification
\* the program, run again and again in a directory that has no store file
\* before the first run and where every directory and file is permitted.
\* Each run is a process that sets showhidden or not, opens its store with
\* init_db(DB_FILENAME, NULL) as main does, calls tag_file, filter_strs or a
\* list function, step_result and free_step, and ends; close_db is called at
\* the end of the process, by atexit.  A run of main makes the calls of one
\* of main_tag_file, main_filter and main_list; a process here may make the
\* calls of several, and the next process finds the store file it left.
Init ==
    /\ dbconn = NULL
    /\ showhidden = 0
    /\ cursor = NULL
    /\ last = [op |-> "none"]
    /\ cwd = MaxDepth
    /\ disk = [d \in Dirs |-> [n \in DiskNames |-> NULL]]
    /\ exited = FALSE
    /\ tagged = [memory |-> { }, files |-> { }]
    /\ stmts = 0
    /\ leaked = 0
    /\ looping = FALSE
    /\ mode = AllPermitted
    /\ atexits = 0
    /\ opens = 0
    /\ held = NoLock
    /\ locks = { }

Next ==
    \/ ShowHidden
    \/ \E sqlrc \in SqlResults : InitDb(Ptr(DbFilename), NULL, sqlrc)
    \/ \E file \in FileArgs, tag \in TagArgs : TagFile(file, tag)
    \/ \E tagv \in TagLists : Filter(tagv)
    \/ \E path \in FileArgs : List(path)
    \/ StepResult
    \/ FreeStep
    \/ Exit
    \/ Exec

Spec == Init /\ [][Next]_vars

\* a process that calls the functions of the store directly, in any order,
\* on one file and two tags: the store is opened in memory (init_memory_db)
\* or in the file of the name DB_FILENAME (init_db(NULL, NULL)), closed and
\* opened again, and get_tag_ids, filter_strs and filter_ids_any_tag are
\* called on their own.  The directory is not changed and no file removed.
InitCalls == Init

NextCalls ==
    \/ ShowHidden
    \/ \E sqlrc \in SqlResults : InitDb(NULL, NULL, sqlrc)
    \/ InitMemoryDb
    \/ CloseDb
    \/ \E tag \in { Ptr(<<97>>), Ptr(<<46, 120>>) } : TagFile(Ptr(<<97>>), tag)
    \/ \E tagv \in TagvArgs, flags \in FlagArgs : FilterStrs(tagv, flags)
    \/ \E tagv \in TagvArgs : GetTagIds(tagv)
    \/ \E ids \in IdArgs : FilterIdsAnyTag(ids)
    \/ \E path \in { NULL, Ptr(<<97>>) } : List(path)
    \/ StepResult
    \/ FreeStep
    \/ Exit
    \/ Exec

SpecCalls == InitCalls /\ [][NextCalls]_vars

\* the bits a directory with restricted permissions gives the process: all
\* but read (mode 0333 for it), all but write (0555), search alone (0311),
\* none (0000)
RestrictedBits == { { "w", "x" }, { "r", "x" }, { "x" }, { } }

\* the store file a directory starts with: none, one with the schema, an
\* empty one, and one with the schema that the process may not read
FileStates == { "absent", "schema", "empty", "noperm" }

\* the store files the chain starts with: at most one of them is empty or
\* unreadable
FileScenarios ==
    { st \in [Dirs -> FileStates] :
        Cardinality({ d \in Dirs : st[d] \in { "empty", "noperm" } }) <= 1 }

\* a process that keeps its store in a file found or made by init_db, tags a
\* file in it, closes it and opens a store again; it is started in the
\* deepest directory of the chain; a directory may hold a store file
\* .ftagdb, and at most one thing is out of the ordinary: one directory has
\* restricted permissions, or one file is empty or unreadable
InitFs ==
    /\ dbconn = NULL
    /\ showhidden = 0
    /\ cursor = NULL
    /\ last = [op |-> "none"]
    /\ cwd = MaxDepth
    /\ \E st \in FileScenarios :
          /\ disk = [d \in Dirs |-> [n \in DiskNames |->
                       IF n = DbFilename /\ st[d] \in { "schema", "noperm" }
                       THEN Ptr(EmptyDb(<< d, n >>))
                       ELSE IF n = DbFilename /\ st[d] = "empty"
                       THEN Ptr(NoSchemaDb(<< d, n >>))
                       ELSE NULL]]
          /\ \E r \in Dirs, bits \in RestrictedBits \cup { DirBits } :
                /\ bits # DirBits => \A d \in Dirs : st[d] \in { "absent", "schema" }
                /\ mode = [d \in Dirs |->
                             [dir |-> IF d = r THEN bits ELSE DirBits,
                              noread |-> IF st[d] = "noperm" THEN { DbFilename }
                                         ELSE { }]]
    /\ exited = FALSE
    /\ tagged = [memory |-> { }, files |-> { }]
    /\ stmts = 0
    /\ leaked = 0
    /\ looping = FALSE
    /\ atexits = 0
    /\ opens = 0
    /\ held = NoLock
    /\ locks = { }

NextFs ==
    \/ \E fn \in FnArgs : ChdirToDb(fn)
    \/ \E fn \in InitFnArgs, dir \in DirArgs, sqlrc \in SqlResults :
          InitDb(fn, dir, sqlrc)
    \/ \E fn \in InitFnArgs : InitDbNoDir(fn)
    \/ InitMemoryDb
    \/ CloseDb
    \/ TagFile(Ptr(<<97>>), Ptr(<<97>>))

SpecFs == InitFs /\ [][NextFs]_vars

\* a process that opens its store with init_db(NULL, NULL), writes to it and
\* reads from it, closes it and opens it again
InitRw == InitFs

NextRw ==
    \/ \E sqlrc \in SqlResults : InitDb(NULL, NULL, sqlrc)
    \/ \E tag \in { Ptr(<<97>>), Ptr(<<46, 120>>) } : TagFile(Ptr(<<97>>), tag)
    \/ GetTagIds(Ptr(<< <<97>> >>))
    \/ CloseDb

SpecRw == InitRw /\ [][NextRw]_vars

\* ------------------------------------------------------ claims on the store
\* (file, tag) has a file_tag row in db
HasPair(db, file, tag) ==
    /\ RowId(db.file, file) # 0
    /\ RowId(db.tag, tag) # 0
    /\ BagIn(<< RowId(db.file, file), RowId(db.tag, tag) >>, db.file_tag)

\* the string begins with '.'
DotPrefixed(str) == Len(str) > 0 /\ str[1] = 46

NoDuplicates(q) == \A i, j \in 1..Len(q) : q[i] = q[j] => i = j

Ascending(q) == \A i, j \in 1..Len(q) : i < j => StrLess(q[i], q[j])

\* the last call was tag_file
LastTagFile == last.op = "tag_file"

\* the open statement has been stepped up to its end marker exactly once and
\* not again since: cursor.out holds what draining it returned
Drained(op) ==
    /\ cursor # NULL
    /\ dbconn # NULL
    /\ Deref(cursor).op = op
    /\ Deref(cursor).atEnd
    /\ Deref(cursor).ended = 1

\* the open statement is in its first pass over its rows
FirstPass ==
    /\ cursor # NULL
    /\ \/ Deref(cursor).ended = 0
       \/ Deref(cursor).ended = 1 /\ Deref(cursor).atEnd

\* the argument is NULL or the empty string
AbsentOrEmpty(arg) == arg = NULL \/ arg = Ptr(<<>>)

\* the last call was tag_file with a non-empty file and a non-empty tag
LastTagFileValid ==
    /\ LastTagFile
    /\ ~AbsentOrEmpty(last.file)
    /\ ~AbsentOrEmpty(last.tag)

\* C1 (as claimed): a tag_file(f, t) that follows a successful tag_file(f, t)
\* returns SUCCESS and leaves the three tables as they were.
C1_SecondTagFileSucceeds ==
    (LastTagFileValid /\ last.again)
        => /\ last.ret = SUCCESS
           /\ Tables(Deref(dbconn)) = Tables(Deref(last.pre))

\* C2 (as claimed): a tag_file that returns ERROR because one of its
\* statements failed leaves the tables as they were before the call and
\* leaves no transaction open.
C2_FailedTagFileLeavesNoTransaction ==
    (LastTagFileValid /\ last.ret = ERROR /\ dbconn # NULL)
        => /\ Tables(Deref(dbconn)) = Tables(Deref(last.pre))
           /\ ~Deref(dbconn).txn

\* C3 (as claimed): tag_file with a NULL or empty file or tag returns ERROR
\* and changes nothing.
C3_RejectsAbsentOrEmpty ==
    (LastTagFile /\ (AbsentOrEmpty(last.file) \/ AbsentOrEmpty(last.tag)))
        => /\ last.ret = ERROR
           /\ dbconn = last.pre

\* the paths filter(tagv) has to yield on db
FilterExpected(db, tagv) ==
    IF Len(tagv) = 0 THEN SeqRange(db.file)
    ELSE { f \in SeqRange(db.file) :
             \E i \in 1..Len(tagv) : HasPair(db, f, tagv[i]) }

\* C4: with showhidden set, draining filter(tagv) yields, each once, the paths
\* that have a file_tag row with one of the named tags (every path of file
\* when no tag is named), and the call does not fail on a store with a schema,
\* whether or not the names have tag rows.
C4_FilterResultSet ==
    /\ (Drained("filter") /\ showhidden = 1)
          => /\ NoDuplicates(Deref(cursor).out)
             /\ SeqRange(Deref(cursor).out)
                  = FilterExpected(Deref(dbconn), Deref(cursor).arg)
    /\ (last.op = "filter" /\ dbconn # NULL /\ Deref(dbconn).schema)
          => /\ last.ret = SUCCESS
             /\ cursor # NULL

\* C4 witness: a drained filter over two names, one without a tag row, that
\* yielded two paths of a store kept in a file
C4_Witness ==
    /\ Drained("filter")
    /\ OnFile(dbconn)
    /\ showhidden = 1
    /\ Len(Deref(cursor).arg) = 2
    /\ RowId(Deref(dbconn).tag, Deref(cursor).arg[1]) = 0
    /\ Len(Deref(cursor).out) >= 2

\* C5 (as claimed): with showhidden not set, once tag_file(f, t) has returned
\* SUCCESS, draining filter([t]) yields f and draining list(f) yields t.
C5_RoundTrip ==
    /\ (Drained("filter") /\ showhidden = 0 /\ Len(Deref(cursor).arg) = 1)
          => \A f \in FileNames :
                << f, Deref(cursor).arg[1] >> \in TaggedOn(tagged, dbconn)
                   => f \in SeqRange(Deref(cursor).out)
    /\ (Drained("list") /\ showhidden = 0 /\ Deref(cursor).arg # NULL)
          => \A t \in TagNames :
                << Deref(Deref(cursor).arg), t >> \in TaggedOn(tagged, dbconn)
                   => t \in SeqRange(Deref(cursor).out)

\* C5 (amended): once tag_file(f, t) has returned SUCCESS, draining
\* filter([t]) yields f unless showhidden is 0 and f begins with '.', and
\* draining list(f) yields t unless showhidden is 0 and t begins with '.'.
C5_RoundTripVisible ==
    /\ (Drained("filter") /\ Len(Deref(cursor).arg) = 1)
          => \A f \in FileNames :
                (/\ << f, Deref(cursor).arg[1] >> \in TaggedOn(tagged, dbconn)
                 /\ (showhidden # 0 \/ ~DotPrefixed(f)))
                   => f \in SeqRange(Deref(cursor).out)
    /\ (Drained("list") /\ Deref(cursor).arg # NULL)
          => \A t \in TagNames :
                (/\ << Deref(Deref(cursor).arg), t >> \in TaggedOn(tagged, dbconn)
                 /\ (showhidden # 0 \/ ~DotPrefixed(t)))
                   => t \in SeqRange(Deref(cursor).out)

\* C5 witness: with showhidden 0, a drained list(f) of a file tagged with a
\* visible and a hidden tag, in a store kept in a file, yielded the visible
\* one
C5_Witness ==
    /\ Drained("list")
    /\ OnFile(dbconn)
    /\ showhidden = 0
    /\ Deref(cursor).arg # NULL
    /\ Cardinality({ t \in TagNames :
                       << Deref(Deref(cursor).arg), t >> \in TaggedOn(tagged, dbconn) }) = 2
    /\ Len(Deref(cursor).out) = 1

\* the rows of q that step_result may return under showhidden = sh
Visible(q, sh) == SelectSeq(q, LAMBDA r : sh # 0 \/ ~DotPrefixed(r))

\* C6: while showhidden is 0 step_result returns no string that begins with
\* '.', and what a statement has returned in its first pass is exactly its
\* rows up to the current one without the dot-prefixed ones, in row order;
\* while showhidden is not 0 it is all the rows up to the current one.
C6_HiddenSuppression ==
    /\ (last.op = "step_result" /\ last.ret # NULL /\ showhidden = 0)
          => ~DotPrefixed(Deref(last.ret))
    /\ FirstPass
          => /\ Deref(cursor).out
                  = Visible(SubSeq(Deref(cursor).rows, 1, Deref(cursor).pos),
                            showhidden)
             /\ Deref(cursor).atEnd
                  => Deref(cursor).pos = Len(Deref(cursor).rows)

\* C6 witness: with showhidden 0 a statement on a store kept in a file whose
\* second of three rows is dot-prefixed has been drained and returned the two
\* others
C6_Witness ==
    /\ showhidden = 0
    /\ OnFile(dbconn)
    /\ cursor # NULL
    /\ Deref(cursor).atEnd
    /\ Deref(cursor).ended = 1
    /\ Len(Deref(cursor).rows) = 3
    /\ DotPrefixed(Deref(cursor).rows[2])
    /\ Len(Deref(cursor).out) = 2

\* C7 (as claimed): in every retrieval mode the strings a statement returns
\* in one pass are in ascending order.
C7_ResultsAscending == FirstPass => Ascending(Deref(cursor).out)

\* the tag names list(path) has to yield on db
ListExpected(db, path) ==
    IF path = NULL THEN SeqRange(db.tag)
    ELSE { t \in SeqRange(db.tag) : HasPair(db, Deref(path), t) }

\* C8: with showhidden set, draining list_by_file(p) yields, each once, the
\* names of the tags that have a file_tag row with the file of path p (none
\* for an unknown p, which is no failure), and draining list_all_tags yields,
\* each once, every name of tag.
C8_ListResultSet ==
    /\ (Drained("list") /\ showhidden = 1)
          => /\ NoDuplicates(Deref(cursor).out)
             /\ SeqRange(Deref(cursor).out)
                  = ListExpected(Deref(dbconn), Deref(cursor).arg)
    /\ (last.op = "list" /\ dbconn # NULL /\ Deref(dbconn).schema)
          => /\ last.ret = SUCCESS
             /\ cursor # NULL

\* C8 witness: a drained list_by_file that yielded one tag name while the
\* store, kept in a file, holds two
C8_Witness ==
    /\ Drained("list")
    /\ OnFile(dbconn)
    /\ showhidden = 1
    /\ Deref(cursor).arg # NULL
    /\ Len(Deref(cursor).out) = 1
    /\ Len(Deref(dbconn).tag) = 2
    /\ BagCardinality(Deref(dbconn).file_tag) >= 2

\* ----------------------------------------------- claims on the path resolver
\* the file a store named fn is kept in: .ftagdb when fn is NULL
StoreFile(fn) == IF fn = NULL THEN ".ftagdb" ELSE Deref(fn)

\* the directories from / down to the one of depth d that hold file f
Holders(dsk, d, f) == { k \in 0..d : dsk[k][f] # NULL }

\* the deepest of a non-empty set of directories of the chain
Nearest(ks) == CHOOSE k \in ks : \A j \in ks : j <= k

\* the last call was init_db(fn, NULL) with no store open
LastInitDbAscent ==
    /\ last.op = "init_db"
    /\ ~last.open
    /\ last.dir = NULL

\* the directories from / down to the one of depth d where access(f, R_OK)
\* succeeds
ReadableHolders(dsk, m, d, f) == { k \in 0..d : Readable(dsk, m, k, f) }

\* C9 (as claimed): init_db(fn, NULL) started in directory D with no store
\* open opens the file fn of the nearest directory of the chain D .. / that
\* holds a readable one and leaves the working directory there, creating
\* nothing; when no directory of the chain holds fn it creates the store,
\* with its schema, in D and the working directory stays D.
C9_StoreDiscovery ==
    LastInitDbAscent =>
        LET f == StoreFile(last.fn)
            rs == ReadableHolders(last.predisk, mode, last.precwd, f)
            ks == Holders(last.predisk, last.precwd, f)
        IN  /\ rs # {}
               => /\ last.ret = SUCCESS
                  /\ cwd = Nearest(rs)
                  /\ disk = last.predisk
                  /\ dbconn = last.predisk[cwd][f]
            /\ ks = {}
               => /\ cwd = last.precwd
                  /\ disk[cwd][f] # NULL
                  /\ dbconn = disk[cwd][f]
                  /\ \A d \in Dirs \ { cwd } : disk[d] = last.predisk[d]

\* C10 (as claimed): when chdir_to_db returns ERROR, for a NULL file name or
\* at the root, the working directory is the one it was called in.
C10_ResolverRestoresCwd ==
    (last.op = "chdir_to_db" /\ last.ret = ERROR) => cwd = last.precwd

\* ------------------------------------- claims on connections and statements
\* the sqlite3 connections of the process that are open: the one behind
\* dbconn and every one that sqlite3_close refused to close
OpenConnections ==
    leaked + (IF dbconn = NULL THEN 0 ELSE 1)

\* C11 (as claimed): at most one connection to a store is open in every
\* reachable state; init_memory_db called while dbconn is set returns ERROR
\* and leaves the handle as it was, and called after close_db it is accepted.
C11_SingleHandle ==
    /\ OpenConnections <= 1
    /\ (last.op = "init_memory_db" /\ last.pre # NULL)
          => /\ last.ret = ERROR
             /\ dbconn = last.pre
    /\ (last.op = "init_memory_db" /\ last.pre = NULL)
          => /\ last.ret = SUCCESS
             /\ dbconn # NULL

\* C12 (as claimed): whenever init_db returns SUCCESS the store it opened has
\* the schema, whether the file was made by the call or was there before
\* without one, and a tag_file with valid arguments on it returns SUCCESS.
C12_SchemaAfterInitDb ==
    (last.op = "init_db" /\ last.ret = SUCCESS)
        => /\ dbconn # NULL
           /\ Deref(dbconn).schema
           /\ tag_file(dbconn, Ptr(<<97>>), Ptr(<<97>>),
                       Cx(dbconn, held, locks, mode)).ret = SUCCESS

\* the last call was init_db(":memory:", dir) with no store open
LastInitDbMemoryName ==
    /\ last.op = "init_db"
    /\ ~last.open
    /\ last.fn = Ptr(":memory:")

\* the last call was init_memory_db with no store open
LastInitMemoryDb ==
    /\ last.op = "init_memory_db"
    /\ last.pre = NULL

\* the store behind dbconn is a database in memory
InMemory == dbconn # NULL /\ Deref(dbconn).store = "memory"

\* C13 (as claimed): init_db(":memory:", dir), called with no store open,
\* returns SUCCESS and afterwards the file :memory: exists in the working
\* directory, which is dir when dir is given, and is the store; the store
\* of init_memory_db is in memory and the call makes no file.
C13_MemoryNameIsAFile ==
    /\ LastInitDbMemoryName
          => /\ last.ret = SUCCESS
             /\ ~InMemory
             /\ disk[cwd][":memory:"] # NULL
             /\ disk[cwd][":memory:"] = dbconn
             /\ last.dir # NULL => cwd = Deref(last.dir)
    /\ LastInitMemoryDb
          => /\ last.ret = SUCCESS
             /\ InMemory
             /\ disk = last.predisk

\* C14 (as claimed): every statement prepared by tag_file, get_tag_ids and
\* the filter and list operations is finalized on every way out, a statement
\* handed to the caller by free_step: while the caller holds no statement
\* the connection has none that is not finalized, and none at close_db.
C14_StatementsReleased ==
    /\ cursor = NULL => stmts = 0
    /\ last.op = "close_db" => last.stmts = 0

\* the rows of db, each table taken as the bag of its rows' key columns
RowsUnique(db) ==
    /\ NoDuplicates(db.file)
    /\ NoDuplicates(db.tag)
    /\ \A p \in BagToSet(db.file_tag) : CopiesIn(p, db.file_tag) = 1

\* C15: in every reachable state no two rows of file have the same
\* relative_path, no two rows of tag the same name and no two rows of
\* file_tag the same (file_id, tag_id), in the open store and in every store
\* file.
C15_Uniqueness ==
    /\ dbconn # NULL => RowsUnique(Deref(dbconn))
    /\ \A d \in Dirs, n \in DiskNames :
          disk[d][n] # NULL => RowsUnique(Deref(disk[d][n]))

\* C15 witness: tag_file was called for a pair that was stored before, on a
\* store in which a file has two tags and a tag two files and whose file
\* holds three pairs
C15_Witness ==
    /\ LastTagFileValid
    /\ last.again
    /\ OnFile(dbconn)
    /\ BagCardinality(Deref(disk[cwd][DbFilename]).file_tag) >= 3
    /\ Len(Deref(dbconn).file) >= 2
    /\ Len(Deref(dbconn).tag) >= 2
    /\ BagCardinality(Deref(dbconn).file_tag) >= 3

\* C16 (as claimed): a failure of the store layer is returned to the caller
\* and is neither swallowed nor turned into the end of the process: the
\* process never exits from inside an operation, a close_db whose
\* sqlite3_close fails is not taken for a close (dbconn keeps the handle),
\* a tag_file one of whose statements fails (it leaves its transaction open)
\* returns ERROR, and a filter or list whose statement cannot be prepared
\* returns NULL.
C16_FailuresReturned ==
    /\ exited => last = [op |-> "exit", from |-> "main"]
    /\ ~looping
    /\ (last.op = "close_db" /\ last.status # "SQLITE_OK") => dbconn # NULL
    /\ (LastTagFile /\ dbconn # NULL /\ Deref(dbconn).txn) => last.ret = ERROR
    /\ (last.op \in { "filter", "list" }
           /\ (dbconn = NULL \/ ~Deref(dbconn).schema))
          => /\ last.ret = ERROR
             /\ cursor = NULL

\* C17 (as claimed): chdir_to_db(fn) started in a directory of depth d ends:
\* it calls access at most d + 1 times, in the directories d, d - 1, ... and
\* in none of them twice; it goes on from a directory only when the file is
\* not readable there and the directory is not /, and it ends in the
\* directory where the file is readable (SUCCESS, and the working directory
\* is that one) or at / (ERROR).
C17_AscentTerminates ==
    /\ ~looping
    /\ (last.op \in { "chdir_to_db", "chdir_to_db_loop" } /\ last.fn # NULL)
          => /\ Len(last.probes) >= 1
             /\ Len(last.probes) <= last.precwd + 1
             /\ NoDuplicates(last.probes)
    /\ (last.op = "chdir_to_db" /\ last.fn # NULL) =>
          LET q == last.probes
              n == Len(q)
          IN  /\ \A i \in 1..n : q[i] = last.precwd - (i - 1)
              /\ \A i \in 1..(n - 1) :
                    /\ ~Readable(disk, mode, q[i], Deref(last.fn))
                    /\ q[i] # 0
              /\ \/ Readable(disk, mode, q[n], Deref(last.fn))
                 \/ q[n] = 0
              /\ last.ret = SUCCESS
                    <=> Readable(disk, mode, q[n], Deref(last.fn))
              /\ last.ret = SUCCESS => cwd = q[n]

\* -------------------------------------------- claims on the result stream
\* C18 (as claimed): a statement returns each of its rows in at most one
\* call of step_result, and once step_result has returned the end marker
\* NULL every further call on the statement returns NULL again: the
\* statement stays at its end and no row is returned a second time.
C18_NotRestartable ==
    cursor # NULL =>
        /\ NoDuplicates(Deref(cursor).out)
        /\ Deref(cursor).ended >= 1
              => /\ Deref(cursor).atEnd
                 /\ last.op = "step_result" => last.ret = NULL

=============================================================================
